---- MODULE Spec2Model ----
(***************************************************************************)
(* A model of dcp's entry point, src/main.c: the translation of the        *)
(* command line and environment into struct mainopts (mainopts_parse and   *)
(* the parse_* helpers), and dcp_main's start-up sequence up to the call   *)
(* of the copy engine dcp().                                               *)
(*                                                                         *)
(* C strings are sequences of one-character strings; the null pointer is   *)
(* NULL.  A digest mask is the set of the algorithms whose bit is set.     *)
(* A size_t is a little-endian sequence of NLimbs base-1024 limbs whose    *)
(* last limb keeps 4 bits, 64 bits in all, so that the multiplications by  *)
(* 1024, 1024^2 and 1024^3 are limb shifts that wrap as the C ones do.     *)
(***************************************************************************)
EXTENDS Integers, Sequences, FiniteSets, TLC

(* ------------------------------ bounds --------------------------------- *)

MaxInputs == 2      \* --input options on the command line
MaxFiles == 2       \* source operands on the command line
MaxPathLen == 3     \* characters of an operand explored by SpecPaths
MaxValLen == 3      \* characters of a cache size explored by SpecOpts
MaxOutIdx == 2      \* auto-named output files that may pre-exist

(* ----------------------------- constants ------------------------------- *)

NULL == <<"NULL">>

EXIT_FAILURE == 1
DefaultCacheSize == 32768
Euid == 500
Egid == 50

Algs == {"MD5", "SHA1", "SHA256", "SHA512"}
DGST_MD5 == {"MD5"}
DGST_SHA1 == {"SHA1"}
DGST_SHA256 == {"SHA256"}
DGST_SHA512 == {"SHA512"}
DGST_ALL == Algs

(* --------------------------- C string helpers -------------------------- *)

Last(s) == s[Len(s)]

\* all sequences over chars of length 0..n
RECURSIVE StringsUpTo(_, _)
StringsUpTo(chars, n) ==
    IF n = 0 THEN {<<>>}
    ELSE LET shorter == StringsUpTo(chars, n - 1)
         IN  shorter \cup {Append(s, c) : s \in {t \in shorter : Len(t) = n - 1},
                                           c \in chars}

(* ------------------------------ size_t --------------------------------- *)

NLimbs == 7
LimbBase == 1024
TopLimbBase == 16

LimbMod(k) == IF k = NLimbs THEN TopLimbBase ELSE LimbBase

\* the size_t holding the non-negative int n
RECURSIVE LimbsFrom(_, _)
LimbsFrom(n, k) ==
    IF k > NLimbs THEN <<>>
    ELSE <<n % LimbMod(k)>> \o LimbsFrom(n \div LimbMod(k), k + 1)

\* the conversion of a long to size_t: two's complement for a negative one
ToSizeT(n) ==
    IF n >= 0 THEN LimbsFrom(n, 1)
    ELSE LET m == LimbsFrom((-n) - 1, 1)
         IN  [k \in 1..NLimbs |-> (LimbMod(k) - 1) - m[k]]

\* size *= 1024^e, modulo 2^64
MulPow1024(size, e) ==
    [k \in 1..NLimbs |-> IF k <= e THEN 0 ELSE size[k - e] % LimbMod(k)]

(* ------------------------------ strtol --------------------------------- *)

NUL == "NUL"

\* val[p], the terminating '\0' past the last character
CharAt(val, p) == IF p <= Len(val) THEN val[p] ELSE NUL

IsSpace(c) == c \in {" ", "\t", "\n"}

HexDigits == <<"0", "1", "2", "3", "4", "5", "6", "7", "8", "9",
               "a", "b", "c", "d", "e", "f">>
HexUpper == <<"0", "1", "2", "3", "4", "5", "6", "7", "8", "9",
              "A", "B", "C", "D", "E", "F">>
NotADigit == 99

DigitVal(c) ==
    IF \E d \in 1..16 : HexDigits[d] = c
    THEN (CHOOSE d \in 1..16 : HexDigits[d] = c) - 1
    ELSE IF \E d \in 1..16 : HexUpper[d] = c
    THEN (CHOOSE d \in 1..16 : HexUpper[d] = c) - 1
    ELSE NotADigit

RECURSIVE SkipSpace(_, _)
SkipSpace(val, p) ==
    IF IsSpace(CharAt(val, p)) THEN SkipSpace(val, p + 1) ELSE p

\* the digits of the given base from position p on: the value accumulated
\* and the position of the first character that is no digit
RECURSIVE ScanDigits(_, _, _, _)
ScanDigits(val, p, base, acc) ==
    IF DigitVal(CharAt(val, p)) < base
    THEN ScanDigits(val, p + 1, base, acc * base + DigitVal(CharAt(val, p)))
    ELSE [value |-> acc, end |-> p]

\* strtol(val, &end, 0): leading white space, an optional sign, a 0x or 0
\* prefix choosing base 16 or 8, then the digits.  end = 1 is C's end == val:
\* nothing was converted.  The clamp to LONG_MAX needs 19 digits and is out of
\* reach of the values explored here.
Strtol0(val) ==
    LET s == SkipSpace(val, 1)
        neg == CharAt(val, s) = "-"
        q == IF CharAt(val, s) \in {"-", "+"} THEN s + 1 ELSE s
        hex == /\ CharAt(val, q) = "0"
               /\ CharAt(val, q + 1) \in {"x", "X"}
               /\ DigitVal(CharAt(val, q + 2)) < 16
        base == IF hex THEN 16 ELSE IF CharAt(val, q) = "0" THEN 8 ELSE 10
        first == IF hex THEN q + 2 ELSE q
        scan == ScanDigits(val, first, base, 0)
    IN  IF scan.end = first
        THEN [value |-> 0, end |-> 1]
        ELSE [value |-> IF neg THEN 0 - scan.value ELSE scan.value,
              end |-> scan.end]

(* ---------------------------- parse_* ---------------------------------- *)

\* what a log_crit / log_critx(EXIT_FAILURE, ...) call leaves of a parse
Fatal(msg) == [fatal |-> TRUE, msg |-> msg, size |-> <<>>]

\* FlagOrEnv with the override reversed: a set environment variable wins
EnvOverFlag(given, arg, envval) == IF envval # NULL THEN envval ELSE arg

\* getenv(name) overridden by the command-line argument when it is given
FlagOrEnv(given, arg, envval) == IF given THEN arg ELSE envval

parse_cache_size(info, env) ==
    LET val == FlagOrEnv(info.cache_size_given, info.cache_size_arg,
                         env.DCP_CACHE_SIZE)
        conv == Strtol0(val)
        size == ToSizeT(conv.value)
        suffix == CharAt(val, conv.end)
    IN  IF val = NULL
        THEN [fatal |-> FALSE, msg |-> "", size |-> ToSizeT(DefaultCacheSize)]
        ELSE IF conv.end = 1
        THEN Fatal("invalid cache size")
        ELSE IF suffix = NUL
        THEN [fatal |-> FALSE, msg |-> "", size |-> size]
        ELSE IF suffix \in {"k", "K"}
        THEN [fatal |-> FALSE, msg |-> "", size |-> MulPow1024(size, 1)]
        ELSE IF suffix \in {"m", "M"}
        THEN [fatal |-> FALSE, msg |-> "", size |-> MulPow1024(size, 2)]
        ELSE IF suffix \in {"g", "G"}
        THEN [fatal |-> FALSE, msg |-> "", size |-> MulPow1024(size, 3)]
        ELSE Fatal("invalid cache suffix")

parse_digests(info) ==
    LET md5 == IF info.md5_flag THEN DGST_MD5 ELSE {}
        sha1 == IF info.sha1_flag THEN DGST_SHA1 ELSE {}
        sha256 == IF info.sha256_flag THEN DGST_SHA256 ELSE {}
        sha512 == IF info.sha512_flag THEN DGST_SHA512 ELSE {}
        digests == md5 \cup sha1 \cup sha256 \cup sha512
    IN  IF info.all_flag THEN DGST_ALL
        ELSE IF digests = {} THEN DGST_MD5
        ELSE digests

\* the password and group databases: getpwnam / getgrnam of a name
Passwd == [name \in {<<"alice">>, <<"bob">>} |->
              IF name = <<"alice">> THEN 1000 ELSE 1001]
Group == [name \in {<<"staff">>, <<"wheel">>} |->
             IF name = <<"staff">> THEN 20 ELSE 10]

parse_owner(info, env) ==
    LET user == FlagOrEnv(info.owner_given, info.owner_arg, env.DCP_OWNER)
    IN  [name |-> user,
         id |-> IF user = NULL THEN Euid
                ELSE IF user \notin DOMAIN Passwd THEN Euid
                ELSE Passwd[user]]

parse_group(info, env) ==
    LET groupname == FlagOrEnv(info.group_given, info.group_arg, env.DCP_GROUP)
    IN  [name |-> groupname,
         id |-> IF groupname = NULL THEN Egid
                ELSE IF groupname \notin DOMAIN Group THEN Egid
                ELSE Group[groupname]]

(* ------------------------------ prepare -------------------------------- *)

RECURSIVE StripTrailingSlashes(_)
StripTrailingSlashes(path) ==
    IF Len(path) > 0 /\ Last(path) = "/"
    THEN StripTrailingSlashes(SubSeq(path, 1, Len(path) - 1))
    ELSE path

\* what follows the last '/' of path, all of path when it has none
RECURSIVE AfterLastSlash(_)
AfterLastSlash(path) ==
    IF Len(path) = 0 \/ Last(path) = "/" THEN <<>>
    ELSE Append(AfterLastSlash(SubSeq(path, 1, Len(path) - 1)), Last(path))

\* basename(3) as <string.h> declares it under _GNU_SOURCE: no trailing slash
\* is removed, so the name of "A/" is empty
GnuBasename(path) == AfterLastSlash(path)

\* basename(3) as <libgen.h> declares it
XpgBasename(path) ==
    IF Len(path) = 0 THEN <<".">>
    ELSE IF StripTrailingSlashes(path) = <<>> THEN <<"/">>
    ELSE AfterLastSlash(StripTrailingSlashes(path))

\* main.c includes no <libgen.h> itself and calls basename with whatever
\* declaration its other headers leave in force: either one, by the build
basename(path, gnu) == IF gnu THEN GnuBasename(path) ELSE XpgBasename(path)

\* asprintf(&fulldest, "%s%s%s", dest, dest ends in '/' ? "" : "/", name)
FullDest(dest, name) ==
    dest \o (IF Last(dest) = "/" THEN <<>> ELSE <<"/">>) \o name

\* what stat(2) can answer for a path: an empty path does not exist, and a
\* path with a trailing slash names a directory or nothing
StatResults(path) ==
    IF Len(path) = 0 THEN {"ENOENT"}
    ELSE IF Last(path) = "/" THEN {"dir", "ENOENT", "EACCES"}
    ELSE {"dir", "file", "ENOENT", "EACCES"}

\* prepare(files, count, dest, &newdest), given what the two stat calls
\* answer, which basename the build links and whether asprintf finds memory
prepare(files, count, dest, srcStat, destStat, gnu, memOk) ==
    IF count # 1 THEN [r |-> 0, newdest |-> NULL]
    ELSE IF srcStat \notin {"dir", "file"} THEN [r |-> -1, newdest |-> NULL]
    ELSE IF srcStat # "dir" THEN [r |-> 0, newdest |-> NULL]
    ELSE IF destStat = "dir"
    THEN [r |-> 0,
          newdest |-> IF memOk THEN FullDest(dest, basename(files[1], gnu))
                      ELSE NULL]
    ELSE IF destStat = "file" THEN [r |-> 0, newdest |-> NULL]
    ELSE IF destStat # "ENOENT" THEN [r |-> -1, newdest |-> NULL]
    ELSE [r |-> 0, newdest |-> NULL]

(* ---------------------------- build_index ------------------------------ *)

\* IndexType with the tests in the reverse order
IndexTypeLastFirst(digests) ==
    IF digests \cap DGST_SHA512 # {} THEN digests \cap DGST_SHA512
    ELSE IF digests \cap DGST_SHA256 # {} THEN digests \cap DGST_SHA256
    ELSE IF digests \cap DGST_SHA1 # {} THEN digests \cap DGST_SHA1
    ELSE digests \cap DGST_MD5

\* the first of md5, sha1, sha256, sha512 whose bit is set in the mask; {}
\* when none is
IndexType(digests) ==
    IF digests \cap DGST_MD5 # {} THEN digests \cap DGST_MD5
    ELSE IF digests \cap DGST_SHA1 # {} THEN digests \cap DGST_SHA1
    ELSE IF digests \cap DGST_SHA256 # {} THEN digests \cap DGST_SHA256
    ELSE digests \cap DGST_SHA512

(* ------------------------- parse_outputstream -------------------------- *)

\* snprintf(name, sizeof(name), "dcp.out") and "dcp(%zu).out"
OutName(i) == IF i = 0 THEN <<"dcp.out">> ELSE <<"dcp(", i, ").out">>

\* OpenExclOk without O_EXCL: open succeeds on an existing name too
OpenNoExcl(dir, name) == TRUE

\* open(name, O_WRONLY | O_CREAT | O_EXCL, 0666) succeeds only on a name
\* that does not exist
OpenExclOk(dir, name) == name \notin DOMAIN dir

\* the directory with the file of that name created empty, or truncated
WithEmptyFile(dir, name) ==
    [n \in DOMAIN dir \cup {name} |-> IF n = name THEN <<>> ELSE dir[n]]

\* the directory with a line appended to the file of that name
WithLine(dir, name, line) ==
    [n \in DOMAIN dir |-> IF n = name THEN Append(dir[n], line) ELSE dir[n]]

(* ------------------------------- state --------------------------------- *)

VARIABLES
    pc,         \* where main is: the next call of mainopts_parse or dcp_main
    info,       \* struct cmdline_info, as cmdline_parser filled it
    env,        \* the environment: DCP_OWNER, DCP_GROUP, DCP_CACHE_SIZE
    opts,       \* struct mainopts
    out,        \* per process, parse_outputstream's locals and its --output
    dir,        \* the files of the file system that hold results: name -> lines
    dir0,       \* dir as it was when the processes started
    digests,    \* dcp_main's local digests
    idx,        \* dcp_main's idx, build_index's while it is being built
    i,          \* build_index's loop counter
    ctx,        \* dcp_main's output context
    dcpopts,    \* struct dcp_options
    dest,       \* dcp_main's local dest
    stats,      \* what prepare's stat calls answered
    engine,     \* the arguments dcp() was called with
    status,     \* the exit status of the process
    err         \* the message of the log_crit call that ended the process

vars == <<pc, info, env, opts, out, dir, dir0, digests, idx, i, ctx, dcpopts,
          dest, stats, engine, status, err>>

Running == -1

\* the process that runs main; SpecOut runs parse_outputstream in two
Main == 1
Procs == {1, 2}

\* struct mainopts on main's stack before mainopts_parse fills it; no field
\* is read before it is assigned
OptsUninit ==
    [files |-> <<>>, filecount |-> 0, dest |-> <<>>, digests |-> {},
     inputs |-> NULL, inputcount |-> 0, outputstream |-> NULL,
     outfilename |-> NULL, uid |-> 0, gid |-> 0, username |-> NULL,
     groupname |-> NULL, cache_size |-> <<>>, verbose_mode |-> FALSE]

\* an index_t, and dcp_main's idx = NULL
Index(type, entries) == [null |-> FALSE, type |-> type, entries |-> entries]
NoIndex == [null |-> TRUE, type |-> {}, entries |-> <<>>]

\* struct dcp_options on dcp_main's stack before it is set
DcpoptsUninit ==
    [bufsize |-> <<>>, digests |-> {}, uid |-> 0, gid |-> 0, index |-> NoIndex,
     verbose |-> FALSE]

NotCalled ==
    [called |-> FALSE, dest |-> <<>>, files |-> <<>>, count |-> 0,
     opts |-> DcpoptsUninit, ctx |-> NULL, r |-> 0]

NoStats == [src |-> "none", dest |-> "none", gnu |-> TRUE, memOk |-> TRUE]

\* parse_outputstream's locals on entry, for a command line whose --output
\* is given with arg, or not given
OutEntry(given, arg) ==
    [pc |-> "open", given |-> given, arg |-> arg, name |-> OutName(0), i |-> 0]

OutIdle == [pc |-> "idle", given |-> FALSE, arg |-> NULL, name |-> OutName(0),
            i |-> 0]

(* ---------------------------- command lines ---------------------------- *)

Flag(given, arg) == [given |-> given, arg |-> arg]
NotGiven == Flag(FALSE, NULL)

\* the --input arguments: NULL when the option is absent
InputArg(n) == IF n = 0 THEN NULL ELSE [k \in 1..n |-> "manifest" \o ToString(k)]

Infos(flagsets, operandLists, inputCounts, owners, groups, caches) ==
    {[all_flag |-> "all" \in f, md5_flag |-> "MD5" \in f,
      sha1_flag |-> "SHA1" \in f, sha256_flag |-> "SHA256" \in f,
      sha512_flag |-> "SHA512" \in f,
      inputs |-> ops, inputs_num |-> Len(ops),
      input_given |-> n, input_arg |-> InputArg(n),
      owner_given |-> o.given, owner_arg |-> o.arg,
      group_given |-> g.given, group_arg |-> g.arg,
      cache_size_given |-> c.given, cache_size_arg |-> c.arg,
      verbose_flag |-> FALSE] :
        f \in flagsets, ops \in operandLists, n \in inputCounts,
        o \in owners, g \in groups, c \in caches}

Envs(owners, groups, caches) ==
    {[DCP_OWNER |-> o, DCP_GROUP |-> g, DCP_CACHE_SIZE |-> c] :
        o \in owners, g \in groups, c \in caches}

\* lists of 0..n operands drawn from paths
RECURSIVE OperandLists(_, _)
OperandLists(paths, n) ==
    IF n = 0 THEN {<<>>}
    ELSE LET shorter == OperandLists(paths, n - 1)
         IN  shorter \cup {Append(l, q) : l \in {t \in shorter : Len(t) = n - 1},
                                           q \in paths}

\* a directory where the first n auto-named result files exist already
DirWith(n) == [name \in {OutName(k) : k \in 0..(n - 1)} |-> <<"old">>]

InitAt(at, infos, envs, dirs, outs) ==
    /\ pc = at
    /\ info \in infos
    /\ env \in envs
    /\ opts = OptsUninit
    /\ out \in outs
    /\ dir \in dirs
    /\ dir0 = dir
    /\ digests = {}
    /\ idx = NoIndex
    /\ i = 0
    /\ ctx = NULL
    /\ dcpopts = DcpoptsUninit
    /\ dest = <<>>
    /\ stats = NoStats
    /\ engine = NotCalled
    /\ status = Running
    /\ err = ""

InitRun(infos, envs, dirs, outs) ==
    InitAt("mainopts_parse", infos, envs, dirs, outs)

(* ---------------------------- mainopts_parse --------------------------- *)

\* log_crit / log_critx(EXIT_FAILURE, msg): the process ends here
Exit(msg) ==
    /\ pc' = "fatal"
    /\ status' = EXIT_FAILURE
    /\ err' = msg

\* the operands, the destination and the digest mask
MainoptsParse ==
    /\ pc = "mainopts_parse"
    /\ LET filecount == info.inputs_num - 1
       IN  IF filecount < 0
           THEN Exit("missing file operand") /\ UNCHANGED opts
           ELSE IF filecount = 0
           THEN Exit("missing destination file operand") /\ UNCHANGED opts
           ELSE /\ opts' = [opts EXCEPT !.filecount = filecount,
                                        !.files = info.inputs,
                                        !.dest = info.inputs[filecount + 1],
                                        !.digests = parse_digests(info)]
                /\ pc' = "parse_outputstream"
                /\ UNCHANGED <<status, err>>
    /\ UNCHANGED <<info, env, out, dir, dir0, digests, idx, i, ctx, dcpopts,
                   dest, stats, engine>>

\* parse_outputstream, --output given: fopen(output_arg, "w") creates the
\* file or truncates it, or fails
OutputFopen(p) ==
    /\ pc = "parse_outputstream"
    /\ out[p].pc = "open"
    /\ out[p].given
    /\ \/ /\ dir' = WithEmptyFile(dir, out[p].arg)
          /\ out' = [out EXCEPT ![p].pc = "opened", ![p].name = out[p].arg]
       \/ /\ out' = [out EXCEPT ![p].pc = "fatal"]
          /\ UNCHANGED dir
    /\ UNCHANGED <<pc, info, env, opts, dir0, digests, idx, i, ctx, dcpopts,
                   dest, stats, engine, status, err>>

\* parse_outputstream, no --output: one turn of the loop around
\* open(name, O_WRONLY | O_CREAT | O_EXCL): the file is created, or the name
\* exists and the next one is tried, or open fails otherwise
OutputOpenExcl(p) ==
    /\ pc = "parse_outputstream"
    /\ out[p].pc = "open"
    /\ ~out[p].given
    /\ \/ /\ OpenExclOk(dir, out[p].name)
          /\ dir' = WithEmptyFile(dir, out[p].name)
          /\ out' = [out EXCEPT ![p].pc = "fdopen"]
       \/ /\ ~OpenExclOk(dir, out[p].name)
          /\ out' = [out EXCEPT ![p].i = out[p].i + 1,
                                ![p].name = OutName(out[p].i + 1)]
          /\ UNCHANGED dir
       \/ /\ out' = [out EXCEPT ![p].pc = "fatal"]
          /\ UNCHANGED dir
    /\ UNCHANGED <<pc, info, env, opts, dir0, digests, idx, i, ctx, dcpopts,
                   dest, stats, engine, status, err>>

\* fdopen(fd, "a") on the file just created
OutputFdopen(p) ==
    /\ pc = "parse_outputstream"
    /\ out[p].pc = "fdopen"
    /\ \/ out' = [out EXCEPT ![p].pc = "opened"]
       \/ out' = [out EXCEPT ![p].pc = "fatal"]
    /\ UNCHANGED <<pc, info, env, opts, dir, dir0, digests, idx, i, ctx,
                   dcpopts, dest, stats, engine, status, err>>

\* parse_outputstream returns to mainopts_parse, or has ended the process
OutputReturn ==
    /\ pc = "parse_outputstream"
    /\ \/ /\ out[Main].pc = "opened"
          /\ opts' = [opts EXCEPT !.outputstream = out[Main].name,
                                  !.outfilename = out[Main].name,
                                  !.inputs = info.input_arg,
                                  !.inputcount = info.input_given]
          /\ pc' = "parse_owner"
          /\ UNCHANGED <<status, err>>
       \/ /\ out[Main].pc = "fatal"
          /\ Exit("cannot create output file")
          /\ UNCHANGED opts
    /\ UNCHANGED <<info, env, out, dir, dir0, digests, idx, i, ctx, dcpopts,
                   dest, stats, engine>>

ParseOwner ==
    /\ pc = "parse_owner"
    /\ opts' = [opts EXCEPT !.uid = parse_owner(info, env).id,
                            !.username = parse_owner(info, env).name]
    /\ pc' = "parse_group"
    /\ UNCHANGED <<info, env, out, dir, dir0, digests, idx, i, ctx, dcpopts,
                   dest, stats, engine, status, err>>

ParseGroup ==
    /\ pc = "parse_group"
    /\ opts' = [opts EXCEPT !.gid = parse_group(info, env).id,
                            !.groupname = parse_group(info, env).name]
    /\ pc' = "parse_cache_size"
    /\ UNCHANGED <<info, env, out, dir, dir0, digests, idx, i, ctx, dcpopts,
                   dest, stats, engine, status, err>>

ParseCacheSize ==
    /\ pc = "parse_cache_size"
    /\ LET parsed == parse_cache_size(info, env)
       IN  IF parsed.fatal
           THEN Exit(parsed.msg) /\ UNCHANGED opts
           ELSE /\ opts' = [opts EXCEPT !.cache_size = parsed.size,
                                        !.verbose_mode = info.verbose_flag]
                /\ pc' = "dcp_main"
                /\ UNCHANGED <<status, err>>
    /\ UNCHANGED <<info, env, out, dir, dir0, digests, idx, i, ctx, dcpopts,
                   dest, stats, engine>>

(* ------------------------------- dcp_main ------------------------------ *)

\* the digest names print_metadata lists for a mask
MetadataDigests(mask) ==
    (IF "MD5" \in mask THEN <<"md5">> ELSE <<>>)
    \o (IF "SHA1" \in mask THEN <<"sha1">> ELSE <<>>)
    \o (IF "SHA256" \in mask THEN <<"sha256">> ELSE <<>>)
    \o (IF "SHA512" \in mask THEN <<"sha512">> ELSE <<>>)

\* the header print_metadata writes, as one line of the result file
Header(o, mask) ==
    [kind |-> "header", digests |-> MetadataDigests(mask),
     sources |-> SubSeq(o.files, 1, o.filecount), destination |-> o.dest,
     output |-> o.outfilename, data_owner |-> o.username,
     data_group |-> o.groupname]

\* a line the copy engine reports for a source operand
Record(src) ==
    [kind |-> "record", digests |-> <<>>, sources |-> <<src>>,
     destination |-> <<>>, output |-> NULL, data_owner |-> NULL,
     data_group |-> NULL]

\* dcp_main up to the call of build_index: with --input, the digests are
\* those io_index_digest_peek reads from the manifests, if it can
DigestPeek ==
    /\ pc = "dcp_main"
    /\ idx' = NoIndex
    /\ IF opts.inputs # NULL
       THEN \/ /\ Exit("cannot determine digest types from input file(s)")
               /\ digests' = opts.digests
            \/ /\ digests' \in SUBSET Algs
               /\ pc' = "build_index"
               /\ UNCHANGED <<status, err>>
       ELSE /\ digests' = opts.digests
            /\ pc' = "print_metadata"
            /\ UNCHANGED <<status, err>>
    /\ UNCHANGED <<info, env, opts, out, dir, dir0, i, ctx, dcpopts, dest,
                   stats, engine>>

\* build_index up to its loop: the type of the index and index_create
BuildIndexCreate ==
    /\ pc = "build_index"
    /\ IF IndexType(digests) = {}
       THEN Exit("corrput parsing of digest types from inputs")
            /\ UNCHANGED <<idx, i>>
       ELSE \/ Exit("cannot create index") /\ UNCHANGED <<idx, i>>
            \/ /\ idx' = Index(IndexType(digests), <<>>)
               /\ i' = 0
               /\ pc' = "index_read"
               /\ UNCHANGED <<status, err>>
    /\ UNCHANGED <<info, env, opts, out, dir, dir0, digests, ctx, dcpopts,
                   dest, stats, engine>>

\* io_index_read(idx, path) returning r: the manifest is in the index when
\* r is 0
AfterRead(index, path, r) ==
    IF r = 0 THEN [index EXCEPT !.entries = Append(@, path)] ELSE index

\* IndexReadFailed with the return value ignored
IndexReadIgnored(r) == FALSE

\* build_index's test of what io_index_read returns
IndexReadFailed(r) == r # 0

\* one turn of build_index's loop, io_index_read(idx, paths[i]), or its end
IndexRead ==
    /\ pc = "index_read"
    /\ \/ /\ i < opts.inputcount
          /\ \E r \in {0, -1} :
                IF IndexReadFailed(r)
                THEN Exit("error building index with entries")
                     /\ idx' = AfterRead(idx, opts.inputs[i + 1], r)
                     /\ UNCHANGED i
                ELSE /\ idx' = AfterRead(idx, opts.inputs[i + 1], r)
                     /\ i' = i + 1
                     /\ UNCHANGED <<pc, status, err>>
       \/ /\ ~(i < opts.inputcount)
          /\ pc' = "print_metadata"
          /\ UNCHANGED <<idx, i, status, err>>
    /\ UNCHANGED <<info, env, opts, out, dir, dir0, digests, ctx, dcpopts,
                   dest, stats, engine>>

\* print_metadata(opts->outputstream, ..., digests); what is written to the
\* stream is in the file at the latest when the process ends
PrintMetadata ==
    /\ pc = "print_metadata"
    /\ dir' = IF opts.outputstream = NULL THEN dir
              ELSE WithLine(dir, opts.outputstream, Header(opts, digests))
    /\ pc' = "ctx_create"
    /\ UNCHANGED <<info, env, opts, out, dir0, digests, idx, i, ctx, dcpopts,
                   dest, stats, engine, status, err>>

\* io_dcp_processor_ctx_create and the setting of struct dcp_options
CtxCreate ==
    /\ pc = "ctx_create"
    /\ \/ Exit("cannot instantiate output context") /\ UNCHANGED <<ctx, dcpopts>>
       \/ /\ ctx' = opts.outputstream
          /\ dcpopts' = [bufsize |-> opts.cache_size,
                         digests |-> opts.digests,
                         uid |-> opts.uid,
                         gid |-> opts.gid,
                         index |-> idx,
                         verbose |-> opts.verbose_mode]
          /\ pc' = "prepare"
          /\ UNCHANGED <<status, err>>
    /\ UNCHANGED <<info, env, opts, out, dir, dir0, digests, idx, i, dest,
                   stats, engine>>

\* prepare and the choice of dest
Prepare ==
    /\ pc = "prepare"
    /\ \E srcStat \in (IF opts.filecount = 1 THEN StatResults(opts.files[1])
                       ELSE {"none"}) :
       \E destStat \in (IF srcStat = "dir" THEN StatResults(opts.dest)
                        ELSE {"none"}) :
       \E gnu \in (IF destStat = "dir" THEN BOOLEAN ELSE {TRUE}) :
       \E memOk \in (IF destStat = "dir" THEN BOOLEAN ELSE {TRUE}) :
          LET p == prepare(opts.files, opts.filecount, opts.dest,
                           srcStat, destStat, gnu, memOk)
          IN  /\ stats' = [src |-> srcStat, dest |-> destStat, gnu |-> gnu,
                           memOk |-> memOk]
              /\ IF p.r # 0
                 THEN Exit("cannot prepare destination") /\ UNCHANGED dest
                 ELSE /\ dest' = IF p.newdest = NULL THEN opts.dest
                                 ELSE p.newdest
                      /\ pc' = "dcp"
                      /\ UNCHANGED <<status, err>>
    /\ UNCHANGED <<info, env, opts, out, dir, dir0, digests, idx, i, ctx,
                   dcpopts, engine>>

RECURSIVE WithRecords(_, _, _, _)
WithRecords(d, name, files, k) ==
    IF k > Len(files) THEN d
    ELSE WithRecords(WithLine(d, name, Record(files[k])), name, files, k + 1)

\* dcp(dest, opts->files, opts->filecount, &dcpopts, &io_dcp_processor, ctx):
\* the engine reports each source operand through ctx and returns r, which
\* main returns
Dcp ==
    /\ pc = "dcp"
    /\ \E r \in {0, 1} :
          /\ engine' = [called |-> TRUE, dest |-> dest,
                        files |-> SubSeq(opts.files, 1, opts.filecount),
                        count |-> opts.filecount, opts |-> dcpopts,
                        ctx |-> ctx, r |-> r]
          /\ status' = r
    /\ dir' = WithRecords(dir, ctx, SubSeq(opts.files, 1, opts.filecount), 1)
    /\ pc' = "exit"
    /\ UNCHANGED <<info, env, opts, out, dir0, digests, idx, i, ctx, dcpopts,
                   dest, stats, err>>

(* ---------------------------- specifications --------------------------- *)

MainOut(entries) ==
    {[p \in Procs |-> IF p = Main THEN o ELSE OutIdle] : o \in entries}
AutoOut == MainOut({OutEntry(FALSE, NULL)})
AnyOut == MainOut({OutEntry(FALSE, NULL), OutEntry(TRUE, <<"my.out">>)})

AllFlagSets == SUBSET (Algs \cup {"all"})

RunPaths == {<<"A">>}

\* the runs of main over every choice of digest flags, with and without
\* --input, --output and a cache size
Init ==
    InitRun(Infos(AllFlagSets, OperandLists(RunPaths, MaxFiles + 1),
                  0..MaxInputs, {NotGiven}, {NotGiven},
                  {NotGiven, Flag(TRUE, <<"k">>)}),
            Envs({NULL}, {NULL}, {NULL}),
            {DirWith(0), DirWith(1)},
            MainOut({OutEntry(FALSE, NULL), OutEntry(TRUE, OutName(0))}))

Next ==
    \/ MainoptsParse
    \/ OutputFopen(Main)
    \/ OutputOpenExcl(Main)
    \/ OutputFdopen(Main)
    \/ OutputReturn
    \/ ParseOwner
    \/ ParseGroup
    \/ ParseCacheSize
    \/ DigestPeek
    \/ BuildIndexCreate
    \/ IndexRead
    \/ PrintMetadata
    \/ CtxCreate
    \/ Prepare
    \/ Dcp

Spec == Init /\ [][Next]_vars

\* the runs of main over the owner, group and cache size of the command line
\* and of the environment
NextNoInput ==
    \/ MainoptsParse
    \/ OutputFopen(Main)
    \/ OutputOpenExcl(Main)
    \/ OutputFdopen(Main)
    \/ OutputReturn
    \/ ParseOwner
    \/ ParseGroup
    \/ ParseCacheSize
    \/ DigestPeek
    \/ PrintMetadata
    \/ CtxCreate
    \/ Prepare
    \/ Dcp

ValChars == {"0", "1", "-", "k", "G", "x"}
CacheVals == StringsUpTo(ValChars, MaxValLen)

OwnerNames == {<<"alice">>, <<"bob">>, <<"ghost">>}
GroupNames == {<<"staff">>, <<"wheel">>, <<"ghosts">>}

NoFlags == {{}}
TwoOperands == {<<<<"A">>, <<"B">>>>}

\* every cache size on the command line against a few in the environment, and
\* every cache size in the environment alone
InitCache ==
    \/ InitRun(Infos(NoFlags, TwoOperands, {0}, {NotGiven}, {NotGiven},
                     {Flag(TRUE, v) : v \in CacheVals}),
               Envs({NULL}, {NULL}, {NULL, <<"1">>, <<"x">>}),
               {DirWith(0)}, AutoOut)
    \/ InitRun(Infos(NoFlags, TwoOperands, {0}, {NotGiven}, {NotGiven},
                     {NotGiven}),
               Envs({NULL}, {NULL}, CacheVals \cup {NULL}),
               {DirWith(0)}, AutoOut)

\* every owner and group on the command line and in the environment, with
\* and without a cache size in each
InitOwner ==
    InitRun(Infos(NoFlags, TwoOperands, {0},
                  {NotGiven} \cup {Flag(TRUE, n) : n \in OwnerNames},
                  {NotGiven} \cup {Flag(TRUE, n) : n \in GroupNames},
                  {NotGiven, Flag(TRUE, <<"1", "k">>)}),
            Envs(OwnerNames \cup {NULL}, GroupNames \cup {NULL},
                 {NULL, <<"1">>}),
            {DirWith(0)}, AnyOut)

InitOpts == InitCache \/ InitOwner

SpecOpts == InitOpts /\ [][NextNoInput]_vars

\* the runs of main over every source operand and destination
PathChars == {"A", "B", "/"}
Paths == StringsUpTo(PathChars, MaxPathLen)

InitPaths ==
    \/ InitRun(Infos(NoFlags,
                  {<<src, dst>> : src \in Paths, dst \in Paths}
                      \cup {<<src, <<"A">>, dst>> :
                                src \in {<<"A">>}, dst \in {<<"B">>, <<"B", "/">>}},
                  {0}, {NotGiven}, {NotGiven}, {NotGiven}),
            Envs({NULL}, {NULL}, {NULL}),
            {DirWith(0)}, MainOut({OutEntry(TRUE, <<"my.out">>)}))
    \/ InitRun(Infos(NoFlags, TwoOperands, {0}, {NotGiven}, {NotGiven},
                     {NotGiven}),
               Envs({NULL}, {NULL}, {NULL}),
               {DirWith(0)}, AutoOut)

SpecPaths == InitPaths /\ [][NextNoInput]_vars

\* two processes in parse_outputstream at once, in a directory where some
\* auto-named result files exist already
\* (parse_outputstream reads and writes only its own locals and the
\* directory; opts is that of a process which has not come back from it)
NextOut ==
    \E p \in Procs :
        \/ OutputFopen(p)
        \/ OutputOpenExcl(p)
        \/ OutputFdopen(p)

OutEntries ==
    {OutEntry(FALSE, NULL)} \cup {OutEntry(TRUE, OutName(k)) : k \in 0..1}

InitOut ==
    /\ InitAt("parse_outputstream",
               Infos(NoFlags, TwoOperands, {0}, {NotGiven}, {NotGiven},
                     {NotGiven}),
               Envs({NULL}, {NULL}, {NULL}),
               {DirWith(n) : n \in 0..MaxOutIdx} \cup {[d \in {OutName(1)} |-> <<"old">>]},
               [Procs -> OutEntries])

SpecOut == InitOut /\ [][NextOut]_vars

(* ------------------------------- claims -------------------------------- *)

NoAlgFlags ==
    /\ ~info.all_flag
    /\ ~info.md5_flag
    /\ ~info.sha1_flag
    /\ ~info.sha256_flag
    /\ ~info.sha512_flag

CacheErrors == {"invalid cache size", "invalid cache suffix"}

StartupErrors ==
    CacheErrors \cup
    {"cannot determine digest types from input file(s)",
     "corrput parsing of digest types from inputs",
     "cannot create index",
     "error building index with entries",
     "cannot instantiate output context",
     "cannot prepare destination"}

InDcpMain ==
    {"dcp_main", "build_index", "index_read", "print_metadata", "ctx_create",
     "prepare", "dcp", "exit"}

\* C1: with --input and no algorithm flag, the mask handed to the copy engine
\* is the mask io_index_digest_peek derived from the manifests.
C1_EngineGetsPeekedDigests ==
    (engine.called /\ info.input_given >= 1 /\ NoAlgFlags)
        => engine.opts.digests = digests

\* C2: a fatal start-up error ends the process with a nonzero status before
\* dcp() is called, with the result file neither created nor truncated and
\* no header written to it.
C2_FatalLeavesNoManifest ==
    (pc = "fatal" /\ err \in StartupErrors)
        => /\ status # 0
           /\ ~engine.called
           /\ dir = dir0

\* C3: a source operand that cannot be stat'ed never ends the run in the
\* start-up code: the run reaches dcp() with every source operand.
C3_UnreadableSourceIsEntryLocal ==
    /\ stats.src \in {"ENOENT", "EACCES"} => pc \in {"dcp", "exit"}
    /\ engine.called
          => engine.files = SubSeq(info.inputs, 1, info.inputs_num - 1)

\* a path with every run of slashes made one slash
RECURSIVE Collapse(_)
Collapse(path) ==
    IF Len(path) <= 1 THEN path
    ELSE IF Last(path) = "/" /\ path[Len(path) - 1] = "/"
    THEN Collapse(SubSeq(path, 1, Len(path) - 1))
    ELSE Append(Collapse(SubSeq(path, 1, Len(path) - 1)), Last(path))

\* a path without its redundant slashes
Canon(path) ==
    LET c == Collapse(path)
    IN  IF Len(c) > 1 /\ Last(c) = "/" THEN SubSeq(c, 1, Len(c) - 1) ELSE c

\* the name of the last component of a source operand
LastComponent(path) == AfterLastSlash(StripTrailingSlashes(path))

\* C4: the destination handed to dcp() is destination/basename(source) if
\* and only if there is one source operand, it is a directory and the
\* destination is an existing directory, and the destination as given
\* otherwise; so that `A B` and `A B/<name of A>` give the engine the same
\* destination, with or without a trailing slash on A.  (Two paths that
\* differ only in redundant slashes count as the same, and a run that finds
\* no memory for the new path is left out.)
C4_DestinationNesting ==
    (engine.called /\ stats.memOk)
        => IF engine.count = 1 /\ stats.src = "dir" /\ stats.dest = "dir"
           THEN Canon(engine.dest)
                    = Canon(opts.dest \o <<"/">> \o LastComponent(opts.files[1]))
           ELSE engine.dest = opts.dest

AlgOrd(a) ==
    IF a = "MD5" THEN 1 ELSE IF a = "SHA1" THEN 2 ELSE IF a = "SHA256" THEN 3 ELSE 4

\* C5: build_index keys the index by the lowest-ordinal algorithm of the
\* mask, and for the empty mask ends the process without an index.
C5_IndexKeyIsLowestOrdinal ==
    /\ ~idx.null
          => /\ digests # {}
             /\ \E a \in digests :
                   /\ idx.type = {a}
                   /\ \A b \in digests : AlgOrd(a) <= AlgOrd(b)
    /\ (info.input_given >= 1 /\ digests = {}
            /\ pc \in (InDcpMain \ {"dcp_main", "build_index"}))
          => FALSE
    /\ err = "corrput parsing of digest types from inputs"
          => digests = {} /\ idx.null /\ pc = "fatal"

C5_Witness ==
    /\ ~idx.null
    /\ "MD5" \notin digests
    /\ Cardinality(digests) >= 2

\* C6: the manifests are ingested in the order of the --input options; a
\* failed ingestion ends the process there; dcp() gets an index only with
\* every manifest in it, and no index when there is no --input.
C6_IndexAllOrNothing ==
    /\ ~idx.null
          => /\ Len(idx.entries) <= info.input_given
             /\ idx.entries = SubSeq(info.input_arg, 1, Len(idx.entries))
    /\ err = "error building index with entries"
          => ~engine.called /\ pc = "fatal"
    /\ engine.called
          => IF info.input_given = 0
             THEN engine.opts.index.null
             ELSE /\ ~engine.opts.index.null
                  /\ engine.opts.index.entries = info.input_arg

C6_Witness ==
    /\ engine.called
    /\ Len(engine.opts.index.entries) >= 2

\* the value the claim has a run use: the flag's, else the environment's
ClaimedValue(given, arg, envval) ==
    IF given THEN arg ELSE IF envval # NULL THEN envval ELSE NULL

ClaimedOwner == ClaimedValue(info.owner_given, info.owner_arg, env.DCP_OWNER)
ClaimedGroup == ClaimedValue(info.group_given, info.group_arg, env.DCP_GROUP)
ClaimedCache ==
    ClaimedValue(info.cache_size_given, info.cache_size_arg, env.DCP_CACHE_SIZE)

\* the size a cache size alone on the command line gives
SizeOnCommandLine(val) ==
    parse_cache_size([cache_size_given |-> TRUE, cache_size_arg |-> val],
                     [DCP_CACHE_SIZE |-> NULL])

CacheFatal == pc = "fatal" /\ err \in CacheErrors
OptsParsed == pc \in InDcpMain \/ (pc = "fatal" /\ err \in StartupErrors \ CacheErrors)

\* C7: owner, group and cache size are the command-line flag's value when
\* the flag is given, else the environment variable's when it is set, else
\* the default: effective uid, effective gid, 32768.
C7_FlagOverEnvOverDefault ==
    /\ (OptsParsed \/ CacheFatal)
          => /\ opts.username = ClaimedOwner
             /\ opts.uid = IF ClaimedOwner \in DOMAIN Passwd
                           THEN Passwd[ClaimedOwner] ELSE Euid
             /\ opts.groupname = ClaimedGroup
             /\ opts.gid = IF ClaimedGroup \in DOMAIN Group
                           THEN Group[ClaimedGroup] ELSE Egid
    /\ OptsParsed
          => opts.cache_size = IF ClaimedCache = NULL
                               THEN <<0, 32, 0, 0, 0, 0, 0>>
                               ELSE SizeOnCommandLine(ClaimedCache).size
    /\ CacheFatal
          => ClaimedCache # NULL /\ SizeOnCommandLine(ClaimedCache).fatal

C7_Witness ==
    /\ engine.called
    /\ info.owner_given /\ env.DCP_OWNER \notin {NULL, info.owner_arg}
    /\ info.group_given /\ env.DCP_GROUP \notin {NULL, info.group_arg}
    /\ info.cache_size_given
    /\ env.DCP_CACHE_SIZE \notin {NULL, info.cache_size_arg}

DecimalDigits == {"0", "1", "2", "3", "4", "5", "6", "7", "8", "9"}
Suffixes == {"k", "K", "m", "M", "g", "G"}

\* the number of decimal digits a value starts with
RECURSIVE LeadingDigits(_, _)
LeadingDigits(val, p) ==
    IF CharAt(val, p) \in DecimalDigits THEN 1 + LeadingDigits(val, p + 1) ELSE 0

RECURSIVE DecimalValue(_)
DecimalValue(ds) ==
    IF ds = <<>> THEN 0
    ELSE 10 * DecimalValue(SubSeq(ds, 1, Len(ds) - 1)) + DigitVal(Last(ds))

\* a non-negative integer followed by at most one suffix and nothing else
WellFormedSize(val) ==
    LET n == LeadingDigits(val, 1)
    IN  /\ n >= 1
        /\ \/ Len(val) = n
           \/ Len(val) = n + 1 /\ val[n + 1] \in Suffixes

ClaimedSize(val) ==
    LET n == LeadingDigits(val, 1)
        suffix == CharAt(val, n + 1)
        e == IF suffix \in {"k", "K"} THEN 1
             ELSE IF suffix \in {"m", "M"} THEN 2
             ELSE IF suffix \in {"g", "G"} THEN 3
             ELSE 0
    IN  MulPow1024(ToSizeT(DecimalValue(SubSeq(val, 1, n))), e)

\* C8: the chunk size is 32768 when no cache size is configured, n times the
\* suffix's multiplier for a non-negative integer n with at most one suffix,
\* and every other value ends the process before any work.
C8_CacheSizeParsing ==
    (OptsParsed \/ CacheFatal)
        => IF ClaimedCache = NULL
           THEN ~CacheFatal /\ opts.cache_size = <<0, 32, 0, 0, 0, 0, 0>>
           ELSE IF WellFormedSize(ClaimedCache)
           THEN ~CacheFatal /\ opts.cache_size = ClaimedSize(ClaimedCache)
           ELSE CacheFatal

HeaderLines(f) == {k \in 1..Len(f) : f[k].kind = "header"}

\* C9: a run that reaches dcp() has written the header once, before any
\* record, and the digests the header lists are those of the mask the copy
\* engine is configured with.
C9_HeaderDeclaresEngineDigests ==
    engine.called
        => LET f == dir[opts.outfilename]
           IN  /\ HeaderLines(f) = {1}
               /\ f[1].digests = MetadataDigests(engine.opts.digests)

AutoProcs == {p \in Procs : ~out[p].given /\ out[p].pc # "idle"}
Created(p) == out[p].pc \in {"fdopen", "opened"}

\* C10: without --output the result file is the first of dcp.out,
\* dcp(1).out, dcp(2).out, ... that does not exist; it is created, never an
\* existing file opened or truncated; and two such runs at once in one
\* directory get different files.
C10_AutoNamedOutput ==
    /\ \A p \in AutoProcs :
          Created(p)
             => /\ out[p].name = OutName(out[p].i)
                /\ out[p].name \notin DOMAIN dir0
                /\ \A k \in 0..(out[p].i - 1) : OutName(k) \in DOMAIN dir
    /\ AutoProcs = Procs => \A n \in DOMAIN dir0 : dir[n] = dir0[n]
    /\ \A p \in AutoProcs : \A q \in AutoProcs :
          (p # q /\ Created(p) /\ Created(q)) => out[p].name # out[q].name

C10_Witness ==
    /\ AutoProcs = Procs
    /\ \A p \in Procs : out[p].pc = "opened"
    /\ DOMAIN dir0 # {}
    /\ \E p \in Procs : out[p].i > Cardinality(DOMAIN dir0)

====
